---------------------------- MODULE Spec2Model ----------------------------
(***************************************************************************)
(* A model of throbberous (src/src/lib.rs): the progress bar (Bar) and the *)
(* spinner (Throbber).  Each widget is a record behind a tokio Mutex, a    *)
(* tokio Notify, a draw task, an animate task and the handle's methods.    *)
(*                                                                         *)
(* Spec          the Bar (determinate and indeterminate)                   *)
(* FairSpec      Spec with the fairness of the runtime and of the Mutex    *)
(* WidgetSpec    either widget, the other only constructed                 *)
(* ThrobberSpec  the Throbber                                              *)
(*                                                                         *)
(* A step of a task runs from one .await to the next.  A critical section  *)
(* holds no .await, so the step that acquires the lock runs the section's  *)
(* body; the guard is dropped by a step of its own.                        *)
(***************************************************************************)
EXTENDS Integers, Sequences, FiniteSets, TLC

(***************************************************************************)
(* Bounds of the model.                                                    *)
(***************************************************************************)
\* totals of determinate bars: 0..MaxTotal
MaxTotal == 4
\* arguments of inc and set_position: 0..MaxDelta
MaxDelta == 3
\* length of the colour palette of a coloured widget
MaxColors == 2
\* widths of indeterminate bars: 0..MaxWidth
MaxWidth == 4
\* the largest value of the model's u64 and usize (the code's is 2^64 - 1):
\* sums and differences are taken modulo U64Max + 1
U64Max == 7
\* numbers of frames of a throbber: 1..MaxFrames
MaxFrames == 2
\* stop_success and stop_err calls on one throbber
MaxStops == 1
\* ticks of a throbber's animate task that are counted since start()
MaxTicks == 3

\* BarConfig::default().width
DefaultWidth == 40

\* the texts a caller passes as a message
Messages == {"", "x"}
\* the texts a caller passes to Throbber::set_message
ThrobberMessages == {"x"}
\* the texts a caller passes to stop_success and stop_err
StopMessages == {"done"}

VARIABLES
    \* ---- Bar ----
    inner,          \* BarState behind Bar.inner: mode, finished, message, color_index
    config,         \* BarConfig: colors, width
    notify,         \* Bar.notify: TRUE when the Notify holds a permit
    lock,           \* who holds the Mutex of Bar.inner: "free", "handle", "draw", "animate"
    draw_task,      \* where Bar::spawn_draw_task's loop is
    animate_task,   \* where Bar::spawn_indeterminate_task's loop is ("none": not spawned)
    handle,         \* where the caller is inside a Bar method
    stdout,         \* the terminal: the lines written, the cursor on the last one
    \* ---- history of the Bar's calls (not program state) ----
    call,           \* the last Bar method that ran its critical section ("new": none yet)
    incSum,         \* while inc is the only method called so far: the sum of its deltas
                    \* (saturating at MaxTotal + 1); OtherCalls once another method ran
    undrawn,        \* history: a method of the handle has changed the state while the
                    \* draw task was alive, and no frame has been drawn since
    msgBy,          \* who wrote inner.message last: "new", "canned", "set_message", "finish_with_message"
    \* ---- Throbber ----
    t_inner,        \* ThrobberState behind Throbber.inner: frame_index, color_index, running, message
    t_config,       \* ThrobberConfig: frames (their number), colors
    t_notify,       \* Throbber.notify: TRUE when the Notify holds a permit
    t_lock,         \* who holds the Mutex of Throbber.inner
    t_draw_task,    \* where Throbber::spawn_draw_task's loop is
    t_animate_task, \* where Throbber::spawn_animate_task's loop is
    t_handle,       \* where the caller is inside a Throbber method
    t_stdout,       \* the terminal: the lines written, the cursor on the last one
    \* ---- history of the Throbber's calls (not program state) ----
    t_call,         \* the Throbber method called last ("new": none yet)
    t_written,      \* the lines that call has written with execute!
    started,        \* TRUE once start() has set running
    t_display,      \* stop_success and stop_err: the line made of `display`
    t_ticks         \* history: the ticks that found running true since start()
                    \* set it, up to MaxTicks; MaxTicks + 1 stands for more

barVars == <<inner, config, notify, lock, draw_task, animate_task, handle, stdout,
             call, incSum, msgBy, undrawn>>

thrVars == <<t_inner, t_config, t_notify, t_lock, t_draw_task, t_animate_task,
             t_handle, t_stdout, t_call, t_written, started, t_display, t_ticks>>

vars == <<barVars, thrVars>>

Min(a, b) == IF a <= b THEN a ELSE b

\* a + b and a - b on u64 or usize where overflow checks are off: they wrap
WrappingAdd(a, b) == (a + b) % (U64Max + 1)

WrappingSub(a, b) == (a - b) % (U64Max + 1)

\* the arguments given to inc and set_position
Deltas == (0 .. MaxDelta) \cup {U64Max}

(***************************************************************************)
(* BarMode                                                                 *)
(***************************************************************************)
Determinate(current, total) ==
    [kind |-> "Determinate", current |-> current, total |-> total,
     position |-> 0, direction |-> 0]

Indeterminate(position, direction) ==
    [kind |-> "Indeterminate", current |-> 0, total |-> 0,
     position |-> position, direction |-> direction]

(***************************************************************************)
(* progress = current as f64 / total as f64, kept as the pair of its       *)
(* operands: within the bounds both conversions and the comparisons with   *)
(* 0.25, 0.5, 0.75 and 1.0 are exact.  0/0 is NaN, and every comparison    *)
(* with NaN is false; c/0 with c > 0 is +infinity.                         *)
(***************************************************************************)
Progress(current, total) == <<current, total>>

\* p >= n/d  (d > 0)
ProgressGe(p, n, d) ==
    IF p[2] = 0 THEN p[1] > 0 ELSE p[1] * d >= n * p[2]

\* CannedMessage with each `>=` written `>`
CannedMessage_Strict(p) ==
    IF p[2] # 0 /\ p[1] > p[2] THEN "Complete!"
    ELSE IF p[2] # 0 /\ p[1] * 4 > 3 * p[2] THEN "Almost there..."
    ELSE IF p[2] # 0 /\ p[1] * 2 > p[2] THEN "Halfway done"
    ELSE IF p[2] # 0 /\ p[1] * 4 > p[2] THEN "Quarter done"
    ELSE "Working..."

\* the match of inc and set_position
CannedMessage(p) ==
    IF ProgressGe(p, 1, 1) THEN "Complete!"
    ELSE IF ProgressGe(p, 3, 4) THEN "Almost there..."
    ELSE IF ProgressGe(p, 1, 2) THEN "Halfway done"
    ELSE IF ProgressGe(p, 1, 4) THEN "Quarter done"
    ELSE "Working..."

\* AfterProgress without the message_empty test
AfterProgress_AlwaysCanned(st, current) ==
    [st EXCEPT !.mode = Determinate(current, st.mode.total),
               !.message = CannedMessage(Progress(current, st.mode.total)),
               !.finished = IF current = st.mode.total THEN TRUE ELSE @]

\* AfterProgress with finished decided by `progress >= 1.0`
AfterProgress_FinishByProgress(st, current) ==
    [st EXCEPT !.mode = Determinate(current, st.mode.total),
               !.message = IF @ = "" THEN CannedMessage(Progress(current, st.mode.total))
                           ELSE @,
               !.finished = IF ProgressGe(Progress(current, st.mode.total), 1, 1)
                            THEN TRUE ELSE @]

\* what inc and set_position do once current is written
AfterProgress(st, current) ==
    LET total == st.mode.total
        progress == Progress(current, total)
        message_empty == st.message = ""
    IN  [st EXCEPT !.mode = Determinate(current, total),
                   !.message = IF message_empty THEN CannedMessage(progress) ELSE @,
                   !.finished = IF current = total THEN TRUE ELSE @]

\* IncBody with `delta.min(*total)`: the sum forgotten
IncBody_NoAdd(st, delta) ==
    IF ~st.finished /\ st.mode.kind = "Determinate"
    THEN AfterProgress(st, Min(delta, st.mode.total))
    ELSE st

\* IncBody without `.min(*total)`
IncBody_NoClamp(st, delta) ==
    IF ~st.finished /\ st.mode.kind = "Determinate"
    THEN AfterProgress(st, WrappingAdd(st.mode.current, delta))
    ELSE st

\* IncBody without the `!state.finished` test
IncBody_NoFinishedTest(st, delta) ==
    IF st.mode.kind = "Determinate"
    THEN AfterProgress(st, Min(WrappingAdd(st.mode.current, delta), st.mode.total))
    ELSE st

\* *current + delta overflows u64: a panic where overflow checks are on (a
\* debug build), a wrapped sum where they are off (a release build)
IncOverflows(st, delta) ==
    /\ ~st.finished
    /\ st.mode.kind = "Determinate"
    /\ st.mode.current + delta > U64Max

\* the critical section of Bar::inc, when it does not panic
IncBody(st, delta) ==
    IF ~st.finished /\ st.mode.kind = "Determinate"
    THEN AfterProgress(st, Min(WrappingAdd(st.mode.current, delta), st.mode.total))
    ELSE st

\* SetPositionBody with inc's `(*current + pos).min(*total)`
SetPositionBody_Add(st, pos) ==
    IF ~st.finished /\ st.mode.kind = "Determinate"
    THEN AfterProgress(st, Min(st.mode.current + pos, st.mode.total))
    ELSE st

\* the critical section of Bar::set_position
SetPositionBody(st, pos) ==
    IF ~st.finished /\ st.mode.kind = "Determinate"
    THEN AfterProgress(st, Min(pos, st.mode.total))
    ELSE st

\* SetMessageBody with finish_with_message's `state.finished = true`
SetMessageBody_Finishes(st, msg) == [st EXCEPT !.message = msg, !.finished = TRUE]

\* the critical section of Bar::set_message
SetMessageBody(st, msg) == [st EXCEPT !.message = msg]

\* the critical section of Bar::finish
FinishBody(st) ==
    [st EXCEPT !.mode = IF @.kind = "Determinate" THEN Determinate(@.total, @.total) ELSE @,
               !.finished = TRUE]

\* the critical section of Bar::finish_with_message
FinishWithMessageBody(st, msg) == [FinishBody(st) EXCEPT !.message = msg]


(***************************************************************************)
(* Bar::draw_bar: the line it writes.  cells are the track's '=' cells.    *)
(* round() of a non-negative x = n/d is floor((2n + d) / 2d); within the   *)
(* bounds no product falls on a half, where f64 rounding could differ.     *)
(***************************************************************************)
RoundDiv(n, d) == (2 * n + d) \div (2 * d)

\* the colours of ThrobberConfig::default(); BarConfig::default() has the first four
Palette == <<"Green", "Yellow", "Magenta", "Cyan", "Blue", "Red", "White", "DarkGrey">>

\* colors.get(color_index).unwrap_or(&Color::White), "plain" when colors is None
Color(colors, color_index) ==
    IF ~colors.some THEN "plain"
    ELSE IF color_index < colors.len THEN Palette[color_index + 1]
    ELSE "White"

BlankLine == [kind |-> "blank", cells |-> {}, percent |-> 0, text |-> "", color |-> "plain"]

\* draw_bar panics: `config.width - 1` underflows usize on an indeterminate bar
\* of width 0 where overflow checks are on; where they are off it wraps
DrawBarPanics(st, cfg) == st.mode.kind = "Indeterminate" /\ cfg.width = 0

\* the line draw_bar writes, when it does not panic
draw_bar(st, cfg) ==
    IF st.mode.kind = "Determinate"
    THEN LET current == Min(st.mode.current, st.mode.total)   \* .min(1.0)
             total == st.mode.total
             filled_len == IF total = 0 THEN cfg.width
                           ELSE RoundDiv(current * cfg.width, total)
             percent == IF total = 0 THEN 100 ELSE RoundDiv(current * 100, total)
         IN  [kind |-> "bar", cells |-> 0 .. (filled_len - 1), percent |-> percent,
              text |-> st.message, color |-> Color(cfg.colors, st.color_index)]
    ELSE LET bounce_width == cfg.width \div 4
             position == st.mode.position
         IN  [kind |-> "bounce",
              cells |-> {i \in position ..
                                 Min(position + bounce_width, WrappingSub(cfg.width, 1)) :
                            i < cfg.width},
              percent |-> 0,
              text |-> st.message, color |-> Color(cfg.colors, st.color_index)]

\* execute!(stdout, MoveToColumn(0), Clear(CurrentLine), .., Print(display), ..)
WriteLine(out, line) == [out EXCEPT ![Len(out)] = line]

\* println!()
Println(out) == Append(out, BlankLine)

(***************************************************************************)
(* Bar::spawn_draw_task                                                    *)
(***************************************************************************)
\* the colour cycling after a frame
CycleColor(colors, color_index) ==
    IF colors.some /\ colors.len # 0 THEN (color_index + 1) % colors.len ELSE color_index

\* notify.notified().await returns: the permit is taken
DrawNotified ==
    /\ draw_task = "notified"
    /\ notify
    /\ notify' = FALSE
    /\ draw_task' = "lock"
    /\ UNCHANGED <<inner, config, lock, animate_task, handle, stdout, call, incSum, msgBy, undrawn, thrVars>>

\* inner.lock().await returns, and the loop body runs; or draw_bar panics in
\* it, which ends the task and drops the guard before anything is written
DrawLocked ==
    /\ draw_task = "lock"
    /\ lock = "free"
    /\ \/ /\ lock' = "draw"
          /\ draw_task' = "drop"
          /\ IF inner.finished
             THEN /\ stdout' = Println(WriteLine(stdout, draw_bar(inner, config)))
                  /\ inner' = inner
             ELSE /\ stdout' = WriteLine(stdout, draw_bar(inner, config))
                  /\ inner' = [inner EXCEPT !.color_index = CycleColor(config.colors, @)]
          /\ undrawn' = FALSE
       \/ /\ DrawBarPanics(inner, config)
          /\ draw_task' = "panicked"
          /\ UNCHANGED <<lock, stdout, inner, undrawn>>
    /\ UNCHANGED <<config, notify, animate_task, handle, call, incSum, msgBy, thrVars>>

\* the guard goes out of scope: the loop goes round, or it was left by break
DrawDrop ==
    /\ draw_task = "drop"
    /\ lock' = "free"
    /\ draw_task' = IF inner.finished THEN "done" ELSE "notified"
    /\ UNCHANGED <<inner, config, notify, animate_task, handle, stdout, call, incSum, msgBy, undrawn, thrVars>>

(***************************************************************************)
(* Bar::spawn_indeterminate_task                                           *)
(***************************************************************************)
\* Bounce turning at `config.width` instead of `config.width - bounce_width`
Bounce_FullWidth(mode, width) ==
    LET sum == mode.position + mode.direction
    IN  IF sum < 0 \/ sum >= width
        THEN Indeterminate(width, -1)
        ELSE IF sum = 0 THEN Indeterminate(sum, 1)
        ELSE Indeterminate(sum, mode.direction)

\* Bounce without `else if *position == 0 { *direction = 1 }`
Bounce_NoTurnAtZero(mode, width) ==
    LET bounce_width == width \div 4
        sum == mode.position + mode.direction
    IN  IF sum < 0 \/ sum >= width - bounce_width
        THEN Indeterminate(width - bounce_width, -1)
        ELSE Indeterminate(sum, mode.direction)

\* one bounce step.  (position as i32 + direction as i32) as usize: a sum of
\* -1 becomes usize::MAX, which is >= any width - bounce_width.
Bounce(mode, width) ==
    LET bounce_width == width \div 4
        sum == mode.position + mode.direction
    IN  IF sum < 0 \/ sum >= width - bounce_width
        THEN Indeterminate(width - bounce_width, -1)
        ELSE IF sum = 0 THEN Indeterminate(sum, 1)
        ELSE Indeterminate(sum, mode.direction)

\* sleep(100ms) and inner.lock().await return, and the block runs
AnimateTick ==
    /\ animate_task = "sleep"
    /\ lock = "free"
    /\ lock' = "animate"
    /\ animate_task' = "drop"
    /\ inner' = IF ~inner.finished /\ inner.mode.kind = "Indeterminate"
                THEN [inner EXCEPT !.mode = Bounce(@, config.width)]
                ELSE inner
    /\ UNCHANGED <<config, notify, draw_task, handle, stdout, call, incSum, msgBy, undrawn, thrVars>>

\* the block's guard is dropped; `if finished { break }`
AnimateDrop ==
    /\ animate_task = "drop"
    /\ lock' = "free"
    /\ animate_task' = IF inner.finished \/ inner.mode.kind # "Indeterminate"
                       THEN "done" ELSE "notify"
    /\ UNCHANGED <<inner, config, notify, draw_task, handle, stdout, call, incSum, msgBy, undrawn, thrVars>>

\* notify.notify_one()
AnimateNotify ==
    /\ animate_task = "notify"
    /\ notify' = TRUE
    /\ animate_task' = "sleep"
    /\ UNCHANGED <<inner, config, lock, draw_task, handle, stdout, call, incSum, msgBy, undrawn, thrVars>>

(***************************************************************************)
(* The Bar's methods.  Each runs its critical section when the lock is     *)
(* granted, drops the guard, then calls notify_one.                        *)
(***************************************************************************)
\* the value of incSum once a method other than inc has been called
OtherCalls == MaxTotal + 2

\* a method's critical section: the state it leaves and who wrote the message
Locked(op, n, st) ==
    /\ handle = "idle"
    /\ lock = "free"
    /\ lock' = "handle"
    /\ handle' = "drop"
    /\ inner' = st
    /\ call' = op
    /\ incSum' = IF op = "inc" /\ incSum # OtherCalls
                 THEN Min(incSum + n, MaxTotal + 1) ELSE OtherCalls
    /\ msgBy' = IF op \in {"set_message", "finish_with_message"} THEN op
                ELSE IF st.message # inner.message THEN "canned"
                ELSE msgBy
    /\ undrawn' = IF st # inner /\ draw_task \notin {"done", "panicked"} THEN TRUE
                  ELSE undrawn
    /\ UNCHANGED <<config, notify, draw_task, animate_task, stdout, thrVars>>

\* Bar::inc panics on `*current + delta`: the guard is dropped by the unwinding,
\* the state is as it was, notify_one is not reached and the caller is gone
IncPanic(delta) ==
    /\ handle = "idle"
    /\ lock = "free"
    /\ IncOverflows(inner, delta)
    /\ handle' = "panicked"
    /\ call' = "inc"
    /\ incSum' = IF incSum # OtherCalls THEN Min(incSum + delta, MaxTotal + 1) ELSE OtherCalls
    /\ UNCHANGED <<inner, config, notify, lock, draw_task, animate_task, stdout, msgBy,
                   undrawn, thrVars>>

Inc(delta) ==
    \/ Locked("inc", delta, IncBody(inner, delta))
    \/ IncPanic(delta)

SetPosition(pos) == Locked("set_position", 0, SetPositionBody(inner, pos))

SetMessage(msg) == Locked("set_message", 0, SetMessageBody(inner, msg))

Finish == Locked("finish", 0, FinishBody(inner))

FinishWithMessage(msg) ==
    Locked("finish_with_message", 0, FinishWithMessageBody(inner, msg))

\* HandleDrop that goes on to notify_one with the guard still held
HandleDrop_KeepsGuard ==
    /\ handle = "drop"
    /\ handle' = "notify"
    /\ UNCHANGED <<inner, config, notify, lock, draw_task, animate_task, stdout, call, incSum,
                   msgBy, undrawn, thrVars>>

\* drop(state), or the end of the block that holds the guard
HandleDrop ==
    /\ handle = "drop"
    /\ lock' = "free"
    /\ handle' = "notify"
    /\ UNCHANGED <<inner, config, notify, draw_task, animate_task, stdout, call, incSum, msgBy, undrawn, thrVars>>

\* self.notify.notify_one()
HandleNotify ==
    /\ handle = "notify"
    /\ notify' = TRUE
    /\ handle' = "idle"
    /\ UNCHANGED <<inner, config, lock, draw_task, animate_task, stdout, call, incSum, msgBy, undrawn, thrVars>>

(***************************************************************************)
(* Construction                                                            *)
(***************************************************************************)
\* BarConfig::no_colors() and a coloured palette
Palettes == {[some |-> FALSE, len |-> 0], [some |-> TRUE, len |-> MaxColors]}

\* Bar::with_config(total, config)
with_config(total, cfg) ==
    /\ inner = [mode |-> Determinate(0, total), finished |-> FALSE,
                message |-> "", color_index |-> 0]
    /\ config = cfg
    /\ animate_task = "none"

\* Bar::indeterminate_with_config(message, config)
indeterminate_with_config(message, cfg) ==
    /\ inner = [mode |-> Indeterminate(0, 1), finished |-> FALSE,
                message |-> message, color_index |-> 0]
    /\ config = cfg
    /\ animate_task = "sleep"

\* what both constructors of Bar set besides the state
BarIdle ==
    /\ notify = FALSE
    /\ lock = "free"
    /\ draw_task = "notified"
    /\ handle = "idle"
    /\ stdout = <<BlankLine>>
    /\ call = "new"
    /\ incSum = 0
    /\ msgBy = "new"
    /\ undrawn = FALSE

BarInit ==
    /\ \/ \E total \in 0 .. MaxTotal, colors \in Palettes :
             with_config(total, [colors |-> colors, width |-> DefaultWidth])
       \/ \E message \in Messages, colors \in Palettes, width \in 0 .. MaxWidth :
             indeterminate_with_config(message, [colors |-> colors, width |-> width])
    /\ BarIdle

(***************************************************************************)
(* Throbber: the lines written                                             *)
(***************************************************************************)
T_BlankLine == [kind |-> "blank", frame |-> 0, text |-> "", color |-> "plain"]

\* Throbber::draw_frame: config.frames[state.frame_index], then the message
draw_frame(st, cfg) ==
    [kind |-> "frame", frame |-> st.frame_index, text |-> st.message,
     color |-> Color(cfg.colors, st.color_index)]

\* the line of stop_success ("success": the check mark, green) and of
\* stop_err ("error": the cross, red)
FinalLine(kind, msg) ==
    [kind |-> kind, frame |-> 0, text |-> msg,
     color |-> IF kind = "success" THEN "Green" ELSE "Red"]

\* execute!(stdout, MoveToColumn(0), Clear(ClearType::CurrentLine))
ClearLine(out) == [out EXCEPT ![Len(out)] = T_BlankLine]

\* [SetForegroundColor,] Print(&display) [, ResetColor] after another party's
\* print since the line was last cleared: the two texts stand side by side
TornLine(line) == [line EXCEPT !.kind = "torn"]

\* [SetForegroundColor,] Print(&display) [, ResetColor]
PrintLine(out, line) ==
    [out EXCEPT ![Len(out)] = IF @ = T_BlankLine THEN line ELSE TornLine(line)]

T_Println(out) == Append(out, T_BlankLine)

(***************************************************************************)
(* Throbber::spawn_draw_task                                               *)
(***************************************************************************)
\* notify.notified().await returns: the permit is taken
T_DrawNotified ==
    /\ t_draw_task = "notified"
    /\ t_notify
    /\ t_notify' = FALSE
    /\ t_draw_task' = "lock"
    /\ UNCHANGED <<t_inner, t_config, t_lock, t_animate_task, t_handle, t_stdout,
                   t_call, t_written, started, t_display, t_ticks, barVars>>

\* inner.lock().await returns, and the loop body runs as far as the line is
\* cleared: by the execute! before break, or by the first two commands of
\* draw_frame's execute!
T_DrawLocked ==
    /\ t_draw_task = "lock"
    /\ t_lock = "free"
    /\ t_lock' = "draw"
    /\ t_draw_task' = IF ~t_inner.running THEN "drop" ELSE "write"
    /\ t_stdout' = ClearLine(t_stdout)
    /\ UNCHANGED <<t_inner, t_config, t_notify, t_animate_task, t_handle,
                   t_call, t_written, started, t_display, t_ticks, barVars>>

\* the rest of draw_frame's execute!: the frame is printed
T_DrawPrint ==
    /\ t_draw_task = "write"
    /\ t_draw_task' = "drop"
    /\ t_stdout' = PrintLine(t_stdout, draw_frame(t_inner, t_config))
    /\ UNCHANGED <<t_inner, t_config, t_notify, t_lock, t_animate_task, t_handle,
                   t_call, t_written, started, t_display, t_ticks, barVars>>

\* the guard goes out of scope: the loop goes round, or it was left by break
T_DrawDrop ==
    /\ t_draw_task = "drop"
    /\ t_lock' = "free"
    /\ t_draw_task' = IF ~t_inner.running THEN "done" ELSE "notified"
    /\ UNCHANGED <<t_inner, t_config, t_notify, t_animate_task, t_handle, t_stdout,
                   t_call, t_written, started, t_display, t_ticks, barVars>>

(***************************************************************************)
(* Throbber::spawn_animate_task                                            *)
(***************************************************************************)
\* animate_body that advances the frame whether running or not
animate_body_NoCheck(st, cfg) ==
    [st EXCEPT !.frame_index = (@ + 1) % cfg.frames,
               !.color_index = CycleColor(cfg.colors, @)]

\* animate_body without `% config.frames.len()`
animate_body_NoWrap(st, cfg) ==
    IF ~st.running THEN st
    ELSE [st EXCEPT !.frame_index = @ + 1,
                    !.color_index = CycleColor(cfg.colors, @)]

\* the block under the lock
animate_body(st, cfg) ==
    IF ~st.running THEN st
    ELSE [st EXCEPT !.frame_index = (@ + 1) % cfg.frames,
                    !.color_index = CycleColor(cfg.colors, @)]

\* sleep(frame_delay) and inner.lock().await return, and the block runs
T_AnimateTick ==
    /\ t_animate_task = "sleep"
    /\ t_lock = "free"
    /\ t_lock' = "animate"
    /\ t_animate_task' = "drop"
    /\ t_inner' = animate_body(t_inner, t_config)
    /\ t_ticks' = IF t_inner.running THEN Min(t_ticks + 1, MaxTicks + 1) ELSE t_ticks
    /\ UNCHANGED <<t_config, t_notify, t_draw_task, t_handle, t_stdout,
                   t_call, t_written, started, t_display, barVars>>

\* the block's guard is dropped; `if !running { break }`
T_AnimateDrop ==
    /\ t_animate_task = "drop"
    /\ t_lock' = "free"
    /\ t_animate_task' = IF ~t_inner.running THEN "done" ELSE "notify"
    /\ UNCHANGED <<t_inner, t_config, t_notify, t_draw_task, t_handle, t_stdout,
                   t_call, t_written, started, t_display, t_ticks, barVars>>

\* notify.notify_one()
T_AnimateNotify ==
    /\ t_animate_task = "notify"
    /\ t_notify' = TRUE
    /\ t_animate_task' = "sleep"
    /\ UNCHANGED <<t_inner, t_config, t_lock, t_draw_task, t_handle, t_stdout,
                   t_call, t_written, started, t_display, t_ticks, barVars>>

(***************************************************************************)
(* The Throbber's methods                                                  *)
(***************************************************************************)
\* the critical section of Throbber::start
start_body(st) ==
    IF ~st.running
    THEN [st EXCEPT !.running = TRUE, !.frame_index = 0, !.color_index = 0]
    ELSE st

\* Throbber::start: the lock is granted and the block runs
T_Start ==
    /\ t_handle = "idle"
    /\ t_lock = "free"
    /\ t_lock' = "handle"
    /\ t_handle' = "drop"
    /\ t_inner' = start_body(t_inner)
    /\ t_call' = "start"
    /\ t_written' = <<>>
    /\ started' = TRUE
    /\ t_ticks' = IF ~t_inner.running THEN 0 ELSE t_ticks
    /\ UNCHANGED <<t_config, t_notify, t_draw_task, t_animate_task, t_stdout, t_display,
                   barVars>>

\* Throbber::set_message: the lock is granted and the block runs
T_SetMessage(msg) ==
    /\ t_handle = "idle"
    /\ t_lock = "free"
    /\ t_lock' = "handle"
    /\ t_handle' = "drop"
    /\ t_inner' = [t_inner EXCEPT !.message = msg]
    /\ t_call' = "set_message"
    /\ t_written' = <<>>
    /\ UNCHANGED <<t_config, t_notify, t_draw_task, t_animate_task, t_stdout, started,
                   t_display, t_ticks, barVars>>

\* stop_success (kind "success") and stop_err (kind "error"): the first block,
\* which writes the final line without taking the lock, as far as the line is
\* cleared by the first two commands of its execute!
T_StopWrite(kind, msg) ==
    /\ t_handle = "idle"
    /\ Len(t_stdout) <= MaxStops
    /\ t_handle' = "write"
    /\ t_display' = FinalLine(kind, msg)
    /\ t_stdout' = ClearLine(t_stdout)
    /\ t_call' = IF kind = "success" THEN "stop_success" ELSE "stop_err"
    /\ t_written' = <<>>
    /\ UNCHANGED <<t_inner, t_config, t_notify, t_lock, t_draw_task, t_animate_task,
                   started, t_ticks, barVars>>

\* stop_success and stop_err: the rest of the execute!, the final line is printed
T_StopPrint ==
    /\ t_handle = "write"
    /\ t_handle' = "lock"
    /\ t_stdout' = PrintLine(t_stdout, t_display)
    /\ t_written' = <<t_display>>
    /\ UNCHANGED <<t_inner, t_config, t_notify, t_lock, t_draw_task, t_animate_task,
                   t_call, started, t_display, t_ticks, barVars>>

\* stop_success and stop_err: the lock is granted and running is cleared
T_StopLocked ==
    /\ t_handle = "lock"
    /\ t_lock = "free"
    /\ t_lock' = "handle"
    /\ t_handle' = "drop"
    /\ t_inner' = [t_inner EXCEPT !.running = FALSE]
    /\ UNCHANGED <<t_config, t_notify, t_draw_task, t_animate_task, t_stdout,
                   t_call, t_written, started, t_display, t_ticks, barVars>>

\* the end of the block that holds the guard; what follows it in the method
T_HandleDrop ==
    /\ t_handle = "drop"
    /\ t_lock' = "free"
    /\ t_handle' = CASE t_call = "start" -> "idle"
                     [] t_call = "set_message" -> "notify"
                     [] OTHER -> "println"
    /\ UNCHANGED <<t_inner, t_config, t_notify, t_draw_task, t_animate_task, t_stdout,
                   t_call, t_written, started, t_display, t_ticks, barVars>>

\* set_message: self.notify.notify_one()
T_HandleNotify ==
    /\ t_handle = "notify"
    /\ t_notify' = TRUE
    /\ t_handle' = "idle"
    /\ UNCHANGED <<t_inner, t_config, t_lock, t_draw_task, t_animate_task, t_stdout,
                   t_call, t_written, started, t_display, t_ticks, barVars>>

\* stop_success and stop_err: println!("")
T_StopPrintln ==
    /\ t_handle = "println"
    /\ t_stdout' = T_Println(t_stdout)
    /\ t_handle' = "idle"
    /\ UNCHANGED <<t_inner, t_config, t_notify, t_lock, t_draw_task, t_animate_task,
                   t_call, t_written, started, t_display, t_ticks, barVars>>

\* Throbber::with_config(config)
T_with_config(cfg) ==
    /\ t_inner = [frame_index |-> 0, color_index |-> 0, running |-> FALSE,
                  message |-> "Throbbing..."]
    /\ t_config = cfg
    /\ t_notify = FALSE
    /\ t_lock = "free"
    /\ t_draw_task = "notified"
    /\ t_animate_task = "sleep"
    /\ t_handle = "idle"
    /\ t_stdout = <<T_BlankLine>>
    /\ t_call = "new"
    /\ t_written = <<>>
    /\ started = FALSE
    /\ t_display = T_BlankLine
    /\ t_ticks = 0

ThrobberInit ==
    \E frames \in 1 .. MaxFrames, colors \in Palettes :
        T_with_config([frames |-> frames, colors |-> colors])

(***************************************************************************)
(* The specifications.  Spec runs a Bar beside a Throbber that is only     *)
(* constructed; ThrobberSpec runs a Throbber beside a Bar that is only     *)
(* constructed.                                                            *)
(***************************************************************************)
Init ==
    /\ BarInit
    /\ T_with_config([frames |-> 1, colors |-> [some |-> FALSE, len |-> 0]])

Next ==
    \/ \E delta \in Deltas : Inc(delta)
    \/ \E pos \in Deltas : SetPosition(pos)
    \/ \E msg \in Messages : SetMessage(msg)
    \/ Finish
    \/ \E msg \in Messages : FinishWithMessage(msg)
    \/ HandleDrop
    \/ HandleNotify
    \/ DrawNotified
    \/ DrawLocked
    \/ DrawDrop
    \/ AnimateTick
    \/ AnimateDrop
    \/ AnimateNotify

Spec == Init /\ [][Next]_vars

\* The scheduling of the Bar: the runtime runs a task that can take a step, a
\* call in progress goes on to its end, and the tokio Mutex is fair (first in,
\* first out), so a task waiting for the lock gets it however often others
\* take it.  Nothing makes the caller call a method.
Fairness ==
    /\ WF_vars(DrawNotified)
    /\ SF_vars(DrawLocked)
    /\ WF_vars(DrawDrop)
    /\ SF_vars(AnimateTick)
    /\ WF_vars(AnimateDrop)
    /\ WF_vars(AnimateNotify)
    /\ WF_vars(HandleDrop)
    /\ WF_vars(HandleNotify)

FairSpec == Init /\ [][Next]_vars /\ Fairness

ThrobberSpecInit ==
    /\ ThrobberInit
    /\ with_config(0, [colors |-> [some |-> FALSE, len |-> 0], width |-> DefaultWidth])
    /\ BarIdle

\* the steps of the Throbber's two tasks
ThrobberTasks ==
    \/ T_DrawNotified
    \/ T_DrawLocked
    \/ T_DrawPrint
    \/ T_DrawDrop
    \/ T_AnimateTick
    \/ T_AnimateDrop
    \/ T_AnimateNotify

ThrobberNext ==
    \/ T_Start
    \/ \E msg \in ThrobberMessages : T_SetMessage(msg)
    \/ \E kind \in {"success", "error"}, msg \in StopMessages : T_StopWrite(kind, msg)
    \/ T_StopPrint
    \/ T_StopLocked
    \/ T_HandleDrop
    \/ T_HandleNotify
    \/ T_StopPrintln
    \/ T_DrawNotified
    \/ T_DrawLocked
    \/ T_DrawPrint
    \/ T_DrawDrop
    \/ T_AnimateTick
    \/ T_AnimateDrop
    \/ T_AnimateNotify

ThrobberSpec == ThrobberSpecInit /\ [][ThrobberNext]_vars

\* A program that constructs a Bar and a Throbber and uses one of them: the
\* steps of a widget are taken while the other is as constructed.  The Bar is
\* any of Init's; the Throbber is Init's, of one frame and without colours,
\* and runs beside the Bar of ThrobberSpec.
BarFresh ==
    /\ with_config(0, [colors |-> [some |-> FALSE, len |-> 0], width |-> DefaultWidth])
    /\ BarIdle

ThrobberFresh == T_with_config([frames |-> 1, colors |-> [some |-> FALSE, len |-> 0]])

WidgetNext ==
    \/ ThrobberFresh /\ Next
    \/ BarFresh /\ ThrobberNext

WidgetSpec == Init /\ [][WidgetNext]_vars

(***************************************************************************)
(* Properties of the Bar (checked under Spec)                              *)
(***************************************************************************)
IsDeterminate == inner.mode.kind = "Determinate"

\* the step in which inc or set_position runs its critical section
ProgressStep == handle = "idle" /\ handle' = "drop" /\ call' \in {"inc", "set_position"}

\* the step in which inc runs its critical section
IncStep == handle = "idle" /\ handle' = "drop" /\ call' = "inc"

\* C1: on a fresh determinate bar with total T driven by inc calls alone whose
\* deltas sum to S <= T, current = min(S, T).
C1_CurrentIsSum ==
    (IsDeterminate /\ incSum # OtherCalls /\ incSum <= inner.mode.total)
        => inner.mode.current = Min(incSum, inner.mode.total)

\* C1 witness: several inc calls have brought a bar to its total
C1_Witness ==
    /\ IsDeterminate /\ call = "inc" /\ handle = "idle"
    /\ incSum = inner.mode.total /\ inner.mode.total > MaxDelta
    /\ inner.mode.current = inner.mode.total

\* C2 as stated: on a determinate bar driven by inc calls alone (any total, 0
\* included, any deltas summing to S <= total, the empty sequence included),
\* current = total iff finished.
C2_FinishedIffAtTotal ==
    (IsDeterminate /\ incSum # OtherCalls /\ incSum <= inner.mode.total)
        => ((inner.mode.current = inner.mode.total) <=> inner.finished)

\* C2 amended: the same, once total > 0 or at least one inc call has run (a
\* fresh Bar::new(0) has current = total = 0 and finished = false).
C2_FinishedIffAtTotal_Amended ==
    (/\ IsDeterminate /\ incSum # OtherCalls /\ incSum <= inner.mode.total
     /\ (inner.mode.total > 0 \/ call = "inc"))
        => ((inner.mode.current = inner.mode.total) <=> inner.finished)

\* C2 witness: a bar of total 0 after its first inc call, finished
C2_Witness ==
    /\ IsDeterminate /\ inner.mode.total = 0 /\ call = "inc" /\ incSum = 0
    /\ inner.finished

\* C3: on a determinate bar driven by inc calls alone (its message never set by
\* the caller), the inc call that brings current from below total to total
\* sets finished and leaves the message "Complete!".
C3_CompleteOnFinish ==
    [][(IncStep /\ IsDeterminate /\ incSum' # OtherCalls
        /\ ~inner.finished /\ inner.mode.current < inner.mode.total
        /\ inner'.mode.current = inner'.mode.total)
          => (inner'.finished /\ inner'.message = "Complete!")]_vars

\* C8: while the non-empty text given to set_message is the bar's message, no
\* inc or set_position call changes the message.
C8_ExplicitMessageKept ==
    [][(ProgressStep /\ msgBy = "set_message" /\ inner.message # "")
          => inner'.message = inner.message]_vars

\* C8 witness: inc has run its message logic on an unfinished determinate bar
\* after set_message("x"), and the message is still "x"
C8_Witness ==
    /\ IsDeterminate /\ ~inner.finished /\ inner.mode.current > 0
    /\ call = "inc" /\ msgBy = "set_message" /\ inner.message = "x"

\* the bucket of current/total, stated on the integers; for total = 0 the
\* quotient 0/0 is not a number and passes no threshold
Bucket(current, total) ==
    IF total = 0 THEN "Working..."
    ELSE IF current >= total THEN "Complete!"
    ELSE IF 4 * current >= 3 * total THEN "Almost there..."
    ELSE IF 2 * current >= total THEN "Halfway done"
    ELSE IF 4 * current >= total THEN "Quarter done"
    ELSE "Working..."

\* C9: when inc or set_position runs on an unfinished determinate bar whose
\* message is empty, the message becomes the canned string of the bucket of
\* current/total after the update, a value on a threshold taking the higher
\* bucket.
C9_CannedBucket ==
    [][(ProgressStep /\ IsDeterminate /\ ~inner.finished /\ inner.message = "")
          => inner'.message = Bucket(inner'.mode.current, inner'.mode.total)]_vars

\* C9 witness: inc calls alone have reached exactly 50%, and the message is
\* "Halfway done"
C9_Witness ==
    /\ IsDeterminate /\ call = "inc" /\ incSum # OtherCalls
    /\ inner.mode.total > 0 /\ 2 * inner.mode.current = inner.mode.total
    /\ inner.message = "Halfway done"

\* C10: in every reachable state and for every pos, set_position(pos) twice in
\* a row leaves the state that set_position(pos) once leaves.
C10_SetPositionIdempotent ==
    \A pos \in Deltas :
        SetPositionBody(SetPositionBody(inner, pos), pos) = SetPositionBody(inner, pos)

\* C10 witness: set_position has just written a canned message on a determinate
\* bar and left it unfinished, so a second call meets a changed state
C10_Witness ==
    /\ IsDeterminate /\ call = "set_position" /\ handle = "drop"
    /\ msgBy = "canned" /\ ~inner.finished /\ inner.mode.current > 0

\* C11: in every reachable state of a determinate bar, whatever the
\* interleaving of inc, set_position, set_message, finish and
\* finish_with_message, current <= total.
C11_CurrentAtMostTotal == IsDeterminate => inner.mode.current <= inner.mode.total

\* C11 witness: inc calls whose deltas sum to more than the total have run, and
\* current stands at the total
C11_Witness ==
    /\ IsDeterminate
    /\ inner.mode.total >= 2
    /\ call = "inc"
    /\ incSum # OtherCalls
    /\ incSum > inner.mode.total
    /\ inner.mode.current = inner.mode.total

\* C12: in every state of an indeterminate bar seen outside the lock, for every
\* width, 0 <= position <= width - bounce_width with bounce_width = width / 4.
C12_PositionInTrack ==
    inner.mode.kind = "Indeterminate"
        => /\ 0 <= inner.mode.position
           /\ inner.mode.position <= config.width - (config.width \div 4)

\* C12 witness: the segment of a bar with bounce_width >= 1 stands at the upper
\* boundary, where it has turned
C12_Witness ==
    /\ inner.mode.kind = "Indeterminate"
    /\ config.width >= 4
    /\ inner.mode.position = config.width - (config.width \div 4)
    /\ inner.mode.direction = -1

\* C14: finished never goes back to false, and inc or set_position on a finished
\* bar leaves current, finished and message as they were.
C14_FinishedIsFinal ==
    [][/\ inner.finished => inner'.finished
       /\ (ProgressStep /\ inner.finished)
              => /\ inner'.mode = inner.mode
                 /\ inner'.finished
                 /\ inner'.message = inner.message]_vars

\* C14 witness: inc has just run on a determinate bar that finish() had finished
\* with its message still empty (an inc that finishes a bar leaves a message)
C14_Witness ==
    /\ IsDeterminate
    /\ inner.mode.total >= 1
    /\ inner.finished
    /\ inner.message = ""
    /\ handle = "drop"
    /\ call = "inc"

\* C15: an indeterminate bar's finished becomes true only in the critical
\* section of finish() or finish_with_message().
C15_IndeterminateFinishedByFinish ==
    [][(inner.mode.kind = "Indeterminate" /\ ~inner.finished /\ inner'.finished)
          => /\ handle = "idle"
             /\ handle' = "drop"
             /\ call' \in {"finish", "finish_with_message"}]_vars

\* C15 witness: an indeterminate bar that has bounced is finished
C15_Witness ==
    /\ inner.mode.kind = "Indeterminate"
    /\ inner.mode.position > 0
    /\ inner.finished

\* C16: inc(delta) on an unfinished determinate bar never panics and sets
\* current to min(current + delta, total), the sum being the mathematical one,
\* for every delta of u64.
C16_IncSaturates ==
    [][\A delta \in Deltas :
          (IsDeterminate /\ ~inner.finished /\ Inc(delta))
             => /\ handle' = "drop"
                /\ inner'.mode.current = Min(inner.mode.current + delta, inner.mode.total)]_vars


\* C17: once a bar's finished flag is set, its draw task eventually ends,
\* having rendered the finished state in one frame followed by one newline;
\* every write is made by the draw task before that newline, and none after it.
C17_FinalFrameThenEnd ==
    /\ inner.finished ~> (draw_task = "done" /\ Len(stdout) = 2)
    /\ [][/\ stdout' # stdout => (draw_task = "lock" /\ Len(stdout) = 1)
          /\ (draw_task = "lock" /\ draw_task' = "drop" /\ inner.finished)
                => stdout' = <<draw_bar(inner, config), BlankLine>>
          /\ draw_task = "done" => stdout' = stdout]_vars

\* C18: every change of the state made by a method of the handle while the
\* draw task is alive is eventually followed by a frame drawn from a state that
\* includes it.
C18_NoRedrawLost == undrawn ~> ~undrawn

\* a tick of the animation task that moves the segment
BounceTick ==
    /\ animate_task = "sleep"
    /\ animate_task' = "drop"
    /\ inner.mode.kind = "Indeterminate"
    /\ ~inner.finished

\* the rule of C20 for one tick: position moves by direction, kept within the
\* two boundaries 0 and width - bounce_width; direction is +1 or -1, is -1 when
\* position has reached the upper boundary, +1 when it has reached 0, and is
\* unchanged between the two
BounceRule ==
    LET upper == config.width - (config.width \div 4)
        moved == inner.mode.position + inner.mode.direction
    IN  /\ inner'.mode.position = (IF moved < 0 THEN 0 ELSE Min(moved, upper))
        /\ inner'.mode.direction \in {1, -1}
        /\ inner'.mode.position = upper => inner'.mode.direction = -1
        /\ inner'.mode.position = 0 => inner'.mode.direction = 1
        /\ inner'.mode.position \notin {0, upper}
              => inner'.mode.direction = inner.mode.direction

\* C20: every tick of the animation task follows the bounce rule, for every
\* width.
C20_Bounce == [][BounceTick => BounceRule]_vars

\* C20, amended: every tick of the animation task follows the bounce rule, for
\* every width >= 1.
C20_Bounce_Amended == [][(BounceTick /\ config.width >= 1) => BounceRule]_vars

\* C20 witness: the segment of a bar with bounce_width >= 1 has turned at the
\* upper boundary and has moved one cell back
C20_Witness ==
    /\ inner.mode.kind = "Indeterminate"
    /\ config.width >= 4
    /\ inner.mode.position = config.width - (config.width \div 4) - 1
    /\ inner.mode.direction = -1
    /\ animate_task = "drop"


(***************************************************************************)
(* Properties of the Throbber (checked under ThrobberSpec)                 *)
(***************************************************************************)
IsFinalLine(line) == line.kind \in {"success", "error"}

\* C4: once stop_success or stop_err has written its line for a started
\* throbber, no later step (of the draw task in particular) draws a frame
\* over that line or clears it.
C4_FinalLineStays ==
    [][\A i \in DOMAIN t_stdout :
          (started /\ IsFinalLine(t_stdout[i])) => t_stdout'[i] = t_stdout[i]]_vars

\* C5: once stop_success or stop_err has cleared running on a started throbber
\* and returned, the two tasks run on, without a further call, until both have
\* terminated: when neither can take a step, both are done.
C5_TasksTerminate ==
    (/\ started /\ ~t_inner.running
     /\ t_call \in {"stop_success", "stop_err"} /\ t_handle = "idle"
     /\ ~ENABLED ThrobberTasks)
        => (t_draw_task = "done" /\ t_animate_task = "done")

\* C6: until start() is first called, neither task of the throbber terminates.
C6_IdleUntilStart ==
    ~started => (t_draw_task # "done" /\ t_animate_task # "done")

\* C7: stop_success has written exactly one line, the check mark and msg, when
\* it clears running, and one when it returns; and a tick of the animate task
\* that finds running false changes no field of the state, raises no signal
\* and ends the task.
C7_StopThenNoTick ==
    [][/\ (t_call = "stop_success" /\ t_handle = "lock" /\ t_handle' = "drop")
            => (/\ \E msg \in StopMessages : t_written = <<FinalLine("success", msg)>>
                /\ ~t_inner'.running)
       /\ (t_call = "stop_success" /\ t_handle = "println" /\ t_handle' = "idle")
            => \E msg \in StopMessages : t_written = <<FinalLine("success", msg)>>
       /\ (/\ t_animate_task \in {"sleep", "drop"}
           /\ t_animate_task' # t_animate_task
           /\ ~t_inner.running)
            => (/\ t_inner' = t_inner
                /\ t_notify' = t_notify
                /\ t_animate_task' \in {"drop", "done"})]_vars

\* C7 witness: the animate task advanced the frame of a started throbber,
\* stop_success returned, and the task's next tick ended it
C7_Witness ==
    /\ started /\ ~t_inner.running /\ t_inner.frame_index > 0
    /\ t_call = "stop_success" /\ t_handle = "idle"
    /\ t_animate_task = "done"

\* C13: for a throbber with frame_count >= 1 frames, after start() and k ticks
\* of the animate task taken while running is true, frame_index = k mod
\* frame_count (k up to MaxTicks).
C13_FrameIndexIsTicksMod ==
    (started /\ t_ticks <= MaxTicks) => t_inner.frame_index = t_ticks % t_config.frames

\* C13 witness: a running throbber of two frames or more has gone through all
\* its frames and one more
C13_Witness ==
    /\ started /\ t_inner.running
    /\ t_config.frames >= 2
    /\ t_ticks = t_config.frames + 1
    /\ t_ticks <= MaxTicks

\* C19: the writes to a widget's line are serialized: no write is in progress
\* by one party (the commands of one execute! partly issued) while another
\* party's write to the same line is in progress.
C19_WritesSerialized == ~(t_draw_task = "write" /\ t_handle = "write")

(***************************************************************************)
(* Properties of both widgets (checked under WidgetSpec)                   *)
(***************************************************************************)
\* the Bar's lock is held exactly by the party that is between its
\* critical section and the drop of its guard
BarLockHeldInSection ==
    /\ (lock = "draw") = (draw_task = "drop")
    /\ (lock = "animate") = (animate_task = "drop")
    /\ (lock = "handle") = (handle = "drop")

\* the same for the Throbber, whose draw task prints its frame in the section
ThrobberLockHeldInSection ==
    /\ (t_lock = "draw") = (t_draw_task \in {"write", "drop"})
    /\ (t_lock = "animate") = (t_animate_task = "drop")
    /\ (t_lock = "handle") = (t_handle = "drop")

\* C21: no party holds a widget's lock while it waits for the signal or the
\* timer, or when it signals: the lock is held only inside a critical section;
\* and there is no deadlock on it: whenever the lock is held its holder can
\* take its next step, which is not a wait and leads to the drop of the guard,
\* and whenever it is free a party that requests it can take it.
C21_NoLockWhileBlocked ==
    /\ BarLockHeldInSection
    /\ ThrobberLockHeldInSection
    /\ lock \in {"free", "draw", "animate", "handle"}
    /\ t_lock \in {"free", "draw", "animate", "handle"}
    /\ lock # "free" => ENABLED (DrawDrop \/ AnimateDrop \/ HandleDrop)
    /\ t_lock # "free" => ENABLED (T_DrawPrint \/ T_DrawDrop \/ T_AnimateDrop \/ T_HandleDrop)
    /\ (lock = "free" /\ draw_task = "lock") => ENABLED DrawLocked
    /\ (lock = "free" /\ animate_task = "sleep") => ENABLED AnimateTick
    /\ (t_lock = "free" /\ t_draw_task = "lock") => ENABLED T_DrawLocked
    /\ (t_lock = "free" /\ t_animate_task = "sleep") => ENABLED T_AnimateTick
    /\ (t_lock = "free" /\ t_handle = "lock") => ENABLED T_StopLocked

\* C21 witness: the Bar's animation task is in its critical section while the
\* draw task, woken, waits for the lock and a method, its guard dropped, is
\* about to signal
C21_Witness ==
    /\ lock = "animate"
    /\ draw_task = "lock"
    /\ handle = "notify"

=============================================================================
